---- MODULE Spec2Model ----
(***************************************************************************)
(* A model of src/adgm_agent.py: the ADGM corporate agent (chunker, vector *)
(* index, rule engine, classifier, issue merger, annotator and the         *)
(* per-run script that builds the index and analyses a batch).             *)
(*                                                                         *)
(* Python strings are TLA+ strings; substring tests, lower(), strip(),     *)
(* split() and join() are computed character by character.  None is the    *)
(* model value of Python's None.                                           *)
(***************************************************************************)
EXTENDS Integers, Sequences, FiniteSets, TLC

VARIABLES
    chunkIn, chunkOut,      \* chunk_text: its arguments and its result
    mergeIn, mergeOut,      \* merge_issues: its arguments and its result
    passages, lastCall,     \* one SimpleRagIndex, and its last method call
    annText, annIssues,     \* annotation: the document's text, its merged issues,
    annPos, annParas,       \*   issues annotated so far, the paragraphs' texts,
    annPrev, annRaised,     \*   those before the last issue, an uncaught raise
    rag_index,              \* st.session_state["rag_index"].passages
    index_built,            \* st.session_state["index_built"]
    logs,                   \* st.session_state["logs"], the entries of this run
    lastBuild,              \* how the last build request ended
    batch, pos,             \* user_files, and how many of them are analysed
    results,                \* per analysed file: what the loop computed for it
    report,                 \* the report of this run
    pc                      \* where the script run is

None == "<None>"

chunkVars == <<chunkIn, chunkOut>>
mergeVars == <<mergeIn, mergeOut>>

idxVars == <<passages, lastCall>>
annVars == <<annText, annIssues, annPos, annParas, annPrev, annRaised>>

appVars == <<rag_index, index_built, logs, lastBuild, batch, pos, results,
             report, pc>>

vars == <<chunkVars, mergeVars, idxVars, annVars, appVars>>

\* the variables of the annotation run when no annotation is under way
AnnIdle ==
    /\ annText = "" /\ annIssues = <<>> /\ annPos = 0
    /\ annParas = <<>> /\ annPrev = <<>> /\ annRaised = FALSE

\* the report a run starts with (documents_uploaded is set when it starts)
NewReport(n) ==
    [process |-> None, documents_uploaded |-> n, required_documents |-> None,
     missing_documents |-> {}, issues_found |-> <<>>]

\* the session as the script first finds it: an empty index, not built, and
\* no upload under analysis
AppIdle ==
    /\ rag_index = <<>> /\ index_built = FALSE /\ logs = <<>>
    /\ lastBuild = "none" /\ batch = <<>> /\ pos = 0 /\ results = <<>>
    /\ report = NewReport(0) /\ pc = "idle"

\* F of the value of x, x being evaluated once
Let(x, F(_)) == CHOOSE r \in {F(v) : v \in {x}} : TRUE

---------------------------------------------------------------------------
(* Python string primitives                                                *)

UpperAlpha == "ABCDEFGHIJKLMNOPQRSTUVWXYZ"
LowerAlpha == "abcdefghijklmnopqrstuvwxyz"

UpperChars == {SubSeq(UpperAlpha, i, i) : i \in 1..26}

LowerOf ==
    [c \in UpperChars |->
        LET i == CHOOSE i \in 1..26 : SubSeq(UpperAlpha, i, i) = c
        IN  SubSeq(LowerAlpha, i, i)]

\* str.lower() of one character
LowerChar(c) == IF c \in UpperChars THEN LowerOf[c] ELSE c

RECURSIVE LowerRange(_, _, _)
\* str.lower() of s[lo..hi], by halves
LowerRange(s, lo, hi) ==
    IF lo > hi THEN ""
    ELSE IF lo = hi THEN LowerChar(SubSeq(s, lo, lo))
    ELSE LET mid == (lo + hi) \div 2
         IN  LowerRange(s, lo, mid) \o LowerRange(s, mid + 1, hi)

\* str.lower()
Lower(s) == Let(s, LAMBDA v : LowerRange(v, 1, Len(v)))

\* sub in s
Contains(sub, s) ==
    \E u \in {sub}, v \in {s} :
        \E i \in 0..(Len(v) - Len(u)) : SubSeq(v, i + 1, i + Len(u)) = u

IsSpace(c) == c \in {" ", "\t", "\n", "\r", "\f"}

\* str.strip()
StripValue(s) ==
    LET nonsp == {i \in 1..Len(s) : ~IsSpace(SubSeq(s, i, i))}
    IN  IF nonsp = {} THEN ""
        ELSE LET lo == CHOOSE i \in nonsp : \A j \in nonsp : i <= j
                 hi == CHOOSE i \in nonsp : \A j \in nonsp : i >= j
             IN  SubSeq(s, lo, hi)
Strip(s) == Let(s, StripValue)

\* s[:n]
Prefix(s, n) == SubSeq(s, 1, IF n < Len(s) THEN n ELSE Len(s))

RECURSIVE SplitFrom(_, _, _)
\* the pieces of s[start..]: up to the leftmost occurrence of sep at or after
\* start, then the pieces after that occurrence
SplitFrom(s, sep, start) ==
    LET hits == {i \in start..(Len(s) - Len(sep) + 1) :
                    SubSeq(s, i, i + Len(sep) - 1) = sep}
    IN  IF hits = {} THEN <<SubSeq(s, start, Len(s))>>
        ELSE LET i == CHOOSE i \in hits : \A j \in hits : i <= j
             IN  <<SubSeq(s, start, i - 1)>> \o SplitFrom(s, sep, i + Len(sep))

\* s.split(sep): left to right, matches do not overlap
Split(s, sep) == Let(s, LAMBDA v : SplitFrom(v, sep, 1))

RECURSIVE Join(_, _)
\* sep.join(parts)
Join(parts, sep) ==
    IF parts = <<>> THEN ""
    ELSE IF Len(parts) = 1 THEN parts[1]
    ELSE parts[1] \o sep \o Join(Tail(parts), sep)

RECURSIVE Rep(_, _)
\* s * n
Rep(s, n) ==
    IF n <= 0 THEN ""
    ELSE LET h == Rep(s, n \div 2)
         IN  h \o h \o (IF n % 2 = 1 THEN s ELSE "")

---------------------------------------------------------------------------
(* Chunker                                                                 *)

CHUNK_SIZE == 1000

ParaSep == "\n\n"

RECURSIVE ChunkLoop(_, _, _, _, _)
\* the for loop of chunk_text over paragraphs[k..]
ChunkLoop(paragraphs, k, size, chunks, cur) ==
    IF k > Len(paragraphs)
    THEN IF cur.items # <<>> THEN Append(chunks, Join(cur.items, ParaSep))
                             ELSE chunks
    ELSE LET p  == paragraphs[k]
             pl == Len(p)
         IN  IF cur.len + pl > size /\ cur.items # <<>>
             THEN ChunkLoop(paragraphs, k + 1, size,
                            Append(chunks, Join(cur.items, ParaSep)),
                            [items |-> <<p>>, len |-> pl])
             ELSE ChunkLoop(paragraphs, k + 1, size, chunks,
                            [items |-> Append(cur.items, p),
                             len   |-> cur.len + pl])

chunk_text(text, size) ==
    IF text = "" THEN <<>>
    ELSE ChunkLoop(Split(text, ParaSep), 1, size, <<>>,
                   [items |-> <<>>, len |-> 0])

---------------------------------------------------------------------------
(* chunk_text applied to bounded inputs                                    *)

MaxTextLen == 5
MaxSize == 3

TextChars == {"a", "\n"}

RECURSIVE TextsOfLen(_)
TextsOfLen(n) ==
    IF n = 0 THEN {""}
    ELSE {t \o c : t \in TextsOfLen(n - 1), c \in TextChars}

ChunkTexts == UNION {TextsOfLen(n) : n \in 0..MaxTextLen}

ChunkInit ==
    /\ chunkIn \in [text : ChunkTexts, size : 1..MaxSize]
    /\ chunkOut = None
    /\ mergeIn = None /\ mergeOut = None
    /\ passages = <<>> /\ lastCall = [op |-> "none"]
    /\ AnnIdle
    /\ AppIdle

Chunk ==
    /\ chunkOut = None
    /\ chunkOut' = chunk_text(chunkIn.text, chunkIn.size)
    /\ UNCHANGED <<chunkIn, mergeVars, idxVars, annVars, appVars>>

SpecChunk == ChunkInit /\ [][Chunk]_vars

\* C2: no chunk is longer than maxSize, except a chunk that is one single
\* paragraph (a chunk of several paragraphs holds the paragraph separator).
C2_ChunkWithinSize ==
    chunkOut # None =>
        \A i \in 1..Len(chunkOut) :
            \/ Len(chunkOut[i]) <= chunkIn.size
            \/ ~Contains(ParaSep, chunkOut[i])

---------------------------------------------------------------------------
(* IssueMerger                                                             *)

\* bool(v) of a value that is None or a string
Truthy(v) == v # None /\ v # ""

\* (it.get("section",""), (it.get("issue","") or "").strip().lower())
IssueKey(it) ==
    <<it.section, Lower(Strip(IF Truthy(it.issue) THEN it.issue ELSE ""))>>

RECURSIVE MergeLoop(_, _, _, _)
\* the for loop of merge_issues over all[k..]
MergeLoop(all, k, out, seen) ==
    IF k > Len(all) THEN out
    ELSE LET it  == all[k]
             key == IssueKey(it)
         IN  IF key \in seen
             THEN LET j == CHOOSE j \in 1..Len(out) :
                               /\ IssueKey(out[j]) = key
                               /\ \A h \in 1..(j - 1) : IssueKey(out[h]) # key
                  IN  IF Truthy(it.citation) /\ ~Truthy(out[j].citation)
                      THEN MergeLoop(all, k + 1,
                               [out EXCEPT ![j].citation = it.citation], seen)
                      ELSE MergeLoop(all, k + 1, out, seen)
             ELSE MergeLoop(all, k + 1, Append(out, it), seen \cup {key})

RECURSIVE MergeLoopOverwrite(_, _, _, _)
\* MergeLoop without the test that the kept issue has no citation yet
MergeLoopOverwrite(all, k, out, seen) ==
    IF k > Len(all) THEN out
    ELSE LET it  == all[k]
             key == IssueKey(it)
         IN  IF key \in seen
             THEN LET j == CHOOSE j \in 1..Len(out) :
                               /\ IssueKey(out[j]) = key
                               /\ \A h \in 1..(j - 1) : IssueKey(out[h]) # key
                  IN  IF Truthy(it.citation)
                      THEN MergeLoopOverwrite(all, k + 1,
                               [out EXCEPT ![j].citation = it.citation], seen)
                      ELSE MergeLoopOverwrite(all, k + 1, out, seen)
             ELSE MergeLoopOverwrite(all, k + 1, Append(out, it),
                                     seen \cup {key})

merge_issues_overwrite(rule, ai) == MergeLoopOverwrite(rule \o ai, 1, <<>>, {})

merge_issues(rule, ai) == MergeLoop(rule \o ai, 1, <<>>, {})

---------------------------------------------------------------------------
(* Document text, Classifier, RuleEngine                                   *)

RECURSIVE NonBlank(_)
\* [p.text for p in doc.paragraphs if p.text and p.text.strip()]
NonBlank(paras) ==
    IF paras = <<>> THEN <<>>
    ELSE IF Head(paras) # "" /\ Strip(Head(paras)) # ""
         THEN <<Head(paras)>> \o NonBlank(Tail(paras))
         ELSE NonBlank(Tail(paras))

\* the text docx_to_text_and_docobj returns for a document of these paragraphs
docx_to_text(paras) == Join(NonBlank(paras), ParaSep)

CHECKLISTS ==
    <<"Articles of Association",
      "Memorandum of Association",
      "Incorporation Application Form",
      "UBO Declaration Form",
      "Register of Members and Directors">>

DOC_TYPE_KEYWORDS ==
    [docname \in {CHECKLISTS[i] : i \in 1..Len(CHECKLISTS)} |->
        CASE docname = "Articles of Association" ->
                 {"articles of association", "articles"}
          [] docname = "Memorandum of Association" ->
                 {"memorandum of association", "memorandum", "moa"}
          [] docname = "Incorporation Application Form" ->
                 {"incorporation application", "application for incorporation"}
          [] docname = "UBO Declaration Form" ->
                 {"ubo declaration", "ultimate beneficial owner"}
          [] docname = "Register of Members and Directors" ->
                 {"register of members", "register of directors",
                  "register of members and directors"}]

UnknownType == "Unknown Document Type"

\* detect_document_types: the labels found, as a set (the code returns
\* list(found), in no defined order)
detect_document_types(text) ==
    LET t     == Lower(text)
        found == {docname \in DOMAIN DOC_TYPE_KEYWORDS :
                     \E kw \in DOC_TYPE_KEYWORDS[docname] : Contains(kw, t)}
    IN  IF found # {} THEN found ELSE {UnknownType}

Issue(sec, txt, sev, sug, cit) ==
    [section |-> sec, issue |-> txt, severity |-> sev, suggestion |-> sug,
     citation |-> cit]

JurisdictionIssue ==
    Issue("jurisdiction", "Jurisdiction clause does not specify ADGM", "High",
          "Update jurisdiction to 'Abu Dhabi Global Market (ADGM)'.", None)

SignatureIssue ==
    Issue("signature", "No signature block detected", "Medium",
          "Add a signatory section with name, capacity, and date.", None)

LanguageIssue ==
    Issue("language", "Ambiguous use of 'may' detected; could be non-binding",
          "Low",
          "Consider replacing 'may' with clearer mandatory language if intended.",
          None)

check_for_red_flags(text) ==
    LET t == Lower(text)
    IN  (IF ~Contains("adgm", t) /\ ~Contains("abu dhabi global market", t)
         THEN <<JurisdictionIssue>> ELSE <<>>)
        \o (IF ~\E w \in {"signature", "signed", "signature:"} : Contains(w, t)
            THEN <<SignatureIssue>> ELSE <<>>)
        \o (IF Contains(" may ", t) THEN <<LanguageIssue>> ELSE <<>>)

---------------------------------------------------------------------------
(* Annotator                                                               *)

\* str(v) inside an f-string
Str(v) == IF v = None THEN "None" ELSE v

\* the anchor selection of the analysis loop for issue it of a document of
\* this text; raised: it.get("issue","").lower() met None
match_phrase(it, text) ==
    LET sec == Lower(IF Truthy(it.section) THEN it.section ELSE "")
        t   == Lower(text)
        m1  == IF Contains("juris", sec)
               THEN IF Contains("jurisdiction", t) THEN "jurisdiction"
                    ELSE IF Contains("governing law", t) THEN "governing law"
                    ELSE ""
               ELSE ""
        m2  == IF m1 = "" /\ Contains("signatur", sec)
               THEN IF Contains("signature", t) THEN "signature" ELSE ""
               ELSE m1
    IN  IF m2 # "" THEN [raised |-> FALSE, phrase |-> m2]
        ELSE IF it.issue = None THEN [raised |-> TRUE, phrase |-> ""]
        ELSE IF Contains("may", Lower(it.issue))
             THEN [raised |-> FALSE, phrase |-> "may"]
             ELSE [raised |-> FALSE,
                   phrase |-> Prefix(Split(Prefix(text, 80), ParaSep)[1], 40)]

\* f"{it.get('issue')} | Suggestion: {it.get('suggestion')}"
comment_text(it) == Str(it.issue) \o " | Suggestion: " \o Str(it.suggestion)

\* the text of a paragraph after the two runs add_inline_comment_to_doc adds
Marked(para, comment) == para \o " " \o "[REVIEW: " \o comment \o "]"

\* add_inline_comment_to_doc: the paragraphs' texts after the call
add_inline_comment_to_doc(paras, paragraph_match, comment) ==
    LET lowered == Lower(paragraph_match)
    IN  [i \in 1..Len(paras) |->
            IF Contains(lowered, Lower(paras[i]))
            THEN Marked(paras[i], comment)
            ELSE paras[i]]

RECURSIVE AnnotateFrom(_, _, _, _)
\* the annotation loop over merged[k..]: the paragraphs at its end, or that
\* it raised
AnnotateFrom(merged, k, text, paras) ==
    IF k > Len(merged) THEN [raised |-> FALSE, paras |-> paras]
    ELSE LET m == match_phrase(merged[k], text)
         IN  IF m.raised THEN [raised |-> TRUE, paras |-> paras]
             ELSE Let(add_inline_comment_to_doc(paras, m.phrase,
                                                comment_text(merged[k])),
                      LAMBDA annotated :
                          AnnotateFrom(merged, k + 1, text, annotated))

---------------------------------------------------------------------------
(* merge_issues applied to bounded inputs                                  *)

MaxRule == 2
MaxAi == 2

MergePool ==
    { Issue("s1", "Dup",   "High",   "fix A", None),
      Issue("s1", " dup ", "Low",    "fix B", "c1"),
      Issue("s1", "DUP",   "Medium", "fix C", "c2"),
      Issue("s1", "dup",   "Low",    "fix D", ""),
      Issue("s2", "Dup",   "Medium", "fix E", None),
      Issue("s1", "Other", "Low",    "fix F", "c2") }

SeqsUpTo(S, n) == UNION {[1..m -> S] : m \in 0..n}

MergeInit ==
    /\ mergeIn \in [rule : SeqsUpTo(MergePool, MaxRule),
                    ai   : SeqsUpTo(MergePool, MaxAi)]
    /\ mergeOut = None
    /\ chunkIn = None /\ chunkOut = None
    /\ passages = <<>> /\ lastCall = [op |-> "none"]
    /\ AnnIdle
    /\ AppIdle

Merge ==
    /\ mergeOut = None
    /\ mergeOut' = merge_issues(mergeIn.rule, mergeIn.ai)
    /\ UNCHANGED <<mergeIn, chunkVars, idxVars, annVars, appVars>>

SpecMerge == MergeInit /\ [][Merge]_vars

\* the dedup key in the words of the claim: section, and the issue text
\* lowercased and trimmed
DedupKey(it) ==
    <<it.section, Strip(Lower(IF it.issue \in {None, ""} THEN "" ELSE it.issue))>>

\* positions of the input that are the first occurrence of their key
FirstSeen(all) ==
    {i \in 1..Len(all) : \A h \in 1..(i - 1) : DedupKey(all[h]) # DedupKey(all[i])}

\* the citation the kept issue of position i ends with
MergedCitation(all, i) ==
    LET later == {j \in (i + 1)..Len(all) :
                     /\ DedupKey(all[j]) = DedupKey(all[i])
                     /\ all[j].citation \notin {None, ""}}
    IN  IF all[i].citation \in {None, ""} /\ later # {}
        THEN all[CHOOSE j \in later : \A h \in later : j <= h].citation
        ELSE all[i].citation

\* C1: merge_issues(R, M) holds one issue per dedup key, in first-seen order
\* over R followed by M; each kept issue has the fields of its first
\* occurrence, except that a kept issue without a citation takes the citation
\* of the first later issue of its key that has one.
C1_MergeFirstSeen ==
    mergeOut # None =>
        LET all   == mergeIn.rule \o mergeIn.ai
            first == FirstSeen(all)
            \* the k-th first occurrence
            nth(k) == CHOOSE i \in first :
                          Cardinality({h \in first : h < i}) = k - 1
        IN  /\ Len(mergeOut) = Cardinality(first)
            /\ \A k \in 1..Len(mergeOut) :
                   mergeOut[k] =
                       [all[nth(k)] EXCEPT !.citation = MergedCitation(all, nth(k))]

\* [A, B] merged with [A', C], A lacking a citation and A' having one, was
\* computed: the result is [A with the citation of A', B, C]
C1_Witness ==
    /\ mergeOut # None
    /\ Len(mergeIn.rule) = 2 /\ Len(mergeIn.ai) = 2
    /\ DedupKey(mergeIn.rule[1]) = DedupKey(mergeIn.ai[1])
    /\ mergeIn.rule[1].citation = None
    /\ mergeIn.ai[1].citation = "c1"
    /\ Len(mergeOut) = 3
    /\ mergeOut[1].citation = "c1"
    /\ mergeOut[1].severity = mergeIn.rule[1].severity
    /\ mergeOut[2] = mergeIn.rule[2]
    /\ mergeOut[3] = mergeIn.ai[2]

---------------------------------------------------------------------------
(* Embedding gateway and cosine similarity                                 *)

\* what a call of embed_texts_genai does: it raises RuntimeError, or it returns
\* a list of vectors
GatewayFail == [ok |-> FALSE, vecs |-> <<>>]
Embedded(vs) == [ok |-> TRUE, vecs |-> vs]

RECURSIVE SumTo(_, _)
SumTo(f, n) == IF n = 0 THEN 0 ELSE f[n] + SumTo(f, n - 1)

\* l2_norm(vec) squared
SqNorm(v) == SumTo([i \in 1..Len(v) |-> v[i] * v[i]], Len(v))

Dot(a, b) == SumTo([i \in 1..Len(a) |-> a[i] * b[i]], Len(a))

\* cosine_sim(a, b).  The cosine c is kept exactly, as the fraction
\* num/den = sign(c) * c^2 (den > 0), which orders and equates cosines as c
\* does; raised: np.dot refused operands of different lengths.
cosine_sim(a, b) ==
    IF SqNorm(a) = 0 \/ SqNorm(b) = 0
    THEN [raised |-> FALSE, num |-> 0, den |-> 1]
    ELSE IF Len(a) # Len(b)
    THEN [raised |-> TRUE, num |-> 0, den |-> 1]
    ELSE LET d == Dot(a, b)
         IN  [raised |-> FALSE,
              num |-> IF d < 0 THEN -(d * d) ELSE d * d,
              den |-> SqNorm(a) * SqNorm(b)]

SimLess(x, y) == x.num * y.den < y.num * x.den
SimEq(x, y) == x.num * y.den = y.num * x.den

---------------------------------------------------------------------------
(* SimpleRagIndex                                                          *)

TOP_K == 3

\* add_document: the passages after the call
add_document(ps, title, text, source) ==
    LET chunks == chunk_text(text, CHUNK_SIZE)
    IN  ps \o [i \in 1..Len(chunks) |->
                  [id        |-> title \o "__" \o ToString(i - 1),
                   text      |-> chunks[i],
                   source    |-> source,
                   embedding |-> None]]

\* embed_all, resp being what embed_texts_genai does when it is called
embed_all(ps, resp) ==
    IF ps = <<>> THEN [passages |-> ps, raised |-> FALSE]
    ELSE IF ~resp.ok THEN [passages |-> ps, raised |-> TRUE]
    ELSE IF Len(resp.vecs) # Len(ps) /\ Len(resp.vecs) # 1
    THEN [passages |-> ps, raised |-> TRUE]
    ELSE LET vecs == IF Len(resp.vecs) # Len(ps)
                     THEN [i \in 1..Len(ps) |-> resp.vecs[1]]
                     ELSE resp.vecs
         IN  [passages |-> [i \in 1..Len(ps) |->
                               [ps[i] EXCEPT !.embedding = vecs[i]]],
              raised   |-> FALSE]

RECURSIVE InsertUnstable(_, _, _)
\* k put before the first position of acc whose similarity is not greater
InsertUnstable(sims, acc, k) ==
    IF acc = <<>> THEN <<k>>
    ELSE IF SimLess(sims[k], sims[Head(acc)]) 
         THEN <<Head(acc)>> \o InsertUnstable(sims, Tail(acc), k)
         ELSE <<k>> \o acc

RECURSIVE InsertDesc(_, _, _)
\* k put before the first position of acc whose similarity is smaller
InsertDesc(sims, acc, k) ==
    IF acc = <<>> THEN <<k>>
    ELSE IF SimLess(sims[Head(acc)], sims[k])
         THEN <<k>> \o acc
         ELSE <<Head(acc)>> \o InsertDesc(sims, Tail(acc), k)

RECURSIVE SortedDesc(_, _)
\* sorted(sims, key=score, reverse=True) over the first n positions, as the
\* sequence of positions: a stable sort, equal scores keep their order
SortedDesc(sims, n) ==
    IF n = 0 THEN <<>> ELSE InsertDesc(sims, SortedDesc(sims, n - 1), n)

\* any(p.get("embedding") is None for p in self.passages)
AnyUnembedded(ps) == \E i \in 1..Len(ps) : ps[i].embedding = None

AllUnembedded(ps) == \A i \in 1..Len(ps) : ps[i].embedding = None

\* the body of retrieve after its guard; qresp is what embed_texts_genai does
\* for [query]
RetrieveScored(ps, qresp, top_k) ==
    IF ~qresp.ok \/ qresp.vecs = <<>>
    THEN [order |-> <<>>, raised |-> TRUE, calls |-> 1]
    ELSE LET qvec == qresp.vecs[1]
             sims == [i \in 1..Len(ps) |->
                         IF ps[i].embedding = None
                         THEN [raised |-> TRUE, num |-> 0, den |-> 1]
                         ELSE cosine_sim(qvec, ps[i].embedding)]
         IN  IF \E i \in 1..Len(ps) : sims[i].raised
             THEN [order |-> <<>>, raised |-> TRUE, calls |-> 1]
             ELSE LET sorted == SortedDesc(sims, Len(ps))
                  IN  [order  |-> SubSeq(sorted, 1,
                                    IF top_k < Len(ps) THEN top_k ELSE Len(ps)),
                       raised |-> FALSE, calls |-> 1]

\* retrieve whose guard asks whether every passage lacks an embedding
retrieve_all_guard(ps, qresp, top_k) ==
    IF ps = <<>> \/ AllUnembedded(ps)
    THEN [order |-> <<>>, raised |-> FALSE, calls |-> 0]
    ELSE RetrieveScored(ps, qresp, top_k)

\* retrieve whose sort lets a later passage overtake an equal earlier one
retrieve_unstable(ps, qresp, top_k) ==
    IF ps = <<>> \/ AnyUnembedded(ps)
    THEN [order |-> <<>>, raised |-> FALSE, calls |-> 0]
    ELSE IF ~qresp.ok \/ qresp.vecs = <<>>
    THEN [order |-> <<>>, raised |-> TRUE, calls |-> 1]
    ELSE LET sims == [i \in 1..Len(ps) |->
                         cosine_sim(qresp.vecs[1], ps[i].embedding)]
             RECURSIVE Sort(_)
             Sort(n) == IF n = 0 THEN <<>>
                        ELSE InsertUnstable(sims, Sort(n - 1), n)
         IN  IF \E i \in 1..Len(ps) : sims[i].raised
             THEN [order |-> <<>>, raised |-> TRUE, calls |-> 1]
             ELSE [order  |-> SubSeq(Sort(Len(ps)), 1,
                                    IF top_k < Len(ps) THEN top_k ELSE Len(ps)),
                   raised |-> FALSE, calls |-> 1]

\* retrieve: the positions (in passages) of the passages returned, in the
\* order returned; whether it raised; how often it called the gateway
retrieve(ps, qresp, top_k) ==
    IF ps = <<>> \/ AnyUnembedded(ps)
    THEN [order |-> <<>>, raised |-> FALSE, calls |-> 0]
    ELSE RetrieveScored(ps, qresp, top_k)

---------------------------------------------------------------------------
(* One SimpleRagIndex under any sequence of its methods                    *)

MaxPassages == 3
MaxTopK == 3

Titles == {"a.txt", "b.txt"}

LongText == Rep("x", 600) \o ParaSep \o Rep("y", 600)

RefTexts == {"", "ADGM Companies Regulations 2020.", LongText}

Vecs == {<<1, 0>>, <<2, 2>>}

QueryVecs == {<<-1, 0>>, <<0, 1>>, <<0, 0>>, <<1>>}

\* what the gateway may answer to a batch of n texts: failure, one vector
\* per text, a single vector, or no vector at all
EmbedResponses(n) ==
    {GatewayFail} \cup
    {Embedded(vs) : vs \in [1..n -> Vecs] \cup [1..1 -> Vecs] \cup {<<>>}}

\* what the gateway may answer to the one-text batch of a query
QueryResponses == {GatewayFail} \cup {Embedded(<<v>>) : v \in QueryVecs}

IdxInit ==
    /\ passages = <<>>
    /\ lastCall = [op |-> "none"]
    /\ chunkIn = None /\ chunkOut = None
    /\ mergeIn = None /\ mergeOut = None
    /\ AnnIdle
    /\ AppIdle

IdxAddDocument(title, text) ==
    /\ Len(passages) < MaxPassages
    /\ LET ps == add_document(passages, title, text, title)
       IN  /\ Len(ps) <= MaxPassages
           /\ passages' = ps
    /\ lastCall' = [op |-> "add_document"]
    /\ UNCHANGED <<chunkVars, mergeVars, annVars, appVars>>

IdxEmbedAll(resp) ==
    LET r == embed_all(passages, resp)
    IN  /\ passages' = r.passages
        /\ lastCall' = [op |-> "embed_all", raised |-> r.raised]
        /\ UNCHANGED <<chunkVars, mergeVars, annVars, appVars>>

IdxRetrieve(qresp, top_k) ==
    /\ lastCall' = [op |-> "retrieve", top_k |-> top_k, qresp |-> qresp,
                    ret |-> retrieve(passages, qresp, top_k)]
    /\ UNCHANGED <<passages, chunkVars, mergeVars, annVars, appVars>>

IdxNext ==
    \/ \E title \in Titles, text \in RefTexts : IdxAddDocument(title, text)
    \/ \E resp \in EmbedResponses(Len(passages)) : IdxEmbedAll(resp)
    \/ \E qresp \in QueryResponses, top_k \in 0..MaxTopK :
           IdxRetrieve(qresp, top_k)

SpecIndex == IdxInit /\ [][IdxNext]_vars

Retrieved == lastCall.op = "retrieve"

\* C5: retrieve on an index with a chunk that has no embedding returns the
\* empty sequence, does not raise and does not call the embedding gateway.
C5_RetrieveUnembeddedEmpty ==
    (Retrieved /\ AnyUnembedded(passages)) =>
        /\ lastCall.ret.order = <<>>
        /\ ~lastCall.ret.raised
        /\ lastCall.ret.calls = 0

\* retrieve ran on an index where some chunks are embedded and one is not
C5_Witness ==
    /\ Retrieved
    /\ lastCall.top_k > 0
    /\ AnyUnembedded(passages)
    /\ ~AllUnembedded(passages)
    /\ lastCall.ret.order = <<>>

\* the similarity of the passage at position i to the query of the last call
SimOf(i) == cosine_sim(lastCall.qresp.vecs[1], passages[i].embedding)

\* C6: on a fully embedded index retrieve returns at most topK chunks, by
\* non-increasing similarity to the query, chunks of equal similarity in
\* their insertion order.
C6_RetrieveTopKSorted ==
    (Retrieved /\ passages # <<>> /\ ~AnyUnembedded(passages)
         /\ ~lastCall.ret.raised) =>
        LET order == lastCall.ret.order
        IN  /\ Len(order) <= lastCall.top_k
            /\ \A i \in 1..Len(order) : order[i] \in 1..Len(passages)
            /\ \A i, j \in 1..Len(order) :
                   i < j =>
                       /\ ~SimLess(SimOf(order[i]), SimOf(order[j]))
                       /\ SimEq(SimOf(order[i]), SimOf(order[j]))
                              => order[i] < order[j]

\* retrieve returned three chunks out of their insertion order, two of them
\* of equal similarity and one of a smaller similarity
C6_Witness ==
    /\ Retrieved
    /\ ~lastCall.ret.raised
    /\ Len(lastCall.ret.order) = 3
    /\ lastCall.ret.order # <<1, 2, 3>>
    /\ \E i, j \in 1..3 :
           /\ i < j
           /\ SimEq(SimOf(lastCall.ret.order[i]), SimOf(lastCall.ret.order[j]))
    /\ SimLess(SimOf(lastCall.ret.order[3]), SimOf(lastCall.ret.order[1]))

\* C9: all chunk ids of an index are pairwise distinct.
C9_ChunkIdsDistinct ==
    \A i, j \in 1..Len(passages) :
        i # j => passages[i].id # passages[j].id

---------------------------------------------------------------------------
(* The annotation loop, one issue at a time, over bounded documents        *)

MaxParas == 2

ParaPool ==
    {"Jurisdiction: Dubai",
     "Governing law of ADGM",
     "Signed by the Director",
     "Directors may resign",
     "The jurisdiction may change",
     ""}

\* model issues of a document whose text they do or do not echo
AiPool ==
    {<<>>,
     <<Issue("(from AI)", "Director may act alone", "Medium", "", None)>>,
     <<Issue("Signature", "Signatory capacity missing", "Low",
             "State the capacity.", None)>>,
     <<Issue("(from AI)", None, "Medium", "", None)>>}

AnnInit ==
    /\ \E paras \in UNION {[1..n -> ParaPool] : n \in 1..MaxParas},
          ai \in AiPool :
           /\ docx_to_text(paras) # ""
           /\ annParas = paras
           /\ annPrev = paras
           /\ annText = docx_to_text(paras)
           /\ annIssues = merge_issues(check_for_red_flags(docx_to_text(paras)), ai)
    /\ annPos = 0
    /\ annRaised = FALSE
    /\ chunkIn = None /\ chunkOut = None
    /\ mergeIn = None /\ mergeOut = None
    /\ passages = <<>> /\ lastCall = [op |-> "none"]
    /\ AppIdle

\* one pass of the loop "for it in merged"
AnnotateIssue ==
    /\ ~annRaised
    /\ annPos < Len(annIssues)
    /\ LET it == annIssues[annPos + 1]
           m  == match_phrase(it, annText)
       IN  IF m.raised
           THEN /\ annRaised' = TRUE
                /\ UNCHANGED <<annParas, annPrev, annPos>>
           ELSE /\ annPrev' = annParas
                /\ annParas' = add_inline_comment_to_doc(annParas, m.phrase,
                                                         comment_text(it))
                /\ annPos' = annPos + 1
                /\ UNCHANGED annRaised
    /\ UNCHANGED <<annText, annIssues, chunkVars, mergeVars, idxVars, appVars>>

SpecAnnotate == AnnInit /\ [][AnnotateIssue]_vars

\* the paragraphs the last annotated issue's anchor occurs in, lowercased
AnchorParas ==
    LET anchor == Lower(match_phrase(annIssues[annPos], annText).phrase)
    IN  {i \in 1..Len(annPrev) : Contains(anchor, Lower(annPrev[i]))}

\* C10: an issue's marker is appended to the first paragraph that contains
\* the anchor and to no other paragraph; no paragraph contains it: no change.
C10_MarkerOnFirstMatchOnly ==
    (annPos > 0 /\ ~annRaised) =>
        LET changed == {i \in 1..Len(annParas) : annParas[i] # annPrev[i]}
        IN  /\ Len(annParas) = Len(annPrev)
            /\ changed = IF AnchorParas = {} THEN {}
                         ELSE {CHOOSE i \in AnchorParas :
                                   \A j \in AnchorParas : i <= j}

---------------------------------------------------------------------------
(* Generation gateway and the parsing of its output                        *)

\* a key the JSON object does not hold
Absent == "<absent>"

\* one element of the "issues" array: a JSON object with these values (None:
\* null), or something that is no object
Item(sec, txt, sev, sug, cit) ==
    [isDict |-> TRUE, section |-> sec, issue |-> txt, severity |-> sev,
     suggestion |-> sug, citation |-> cit]
NotADict == [isDict |-> FALSE, section |-> Absent, issue |-> Absent,
             severity |-> Absent, suggestion |-> Absent, citation |-> Absent]

\* what generate_with_genai does: it raises, or it returns text: a body (a
\* JSON object, a JSON array, or prose) with or without text before and after
Generated(lead, trail, kind, hasIssues, issues) ==
    [raised |-> FALSE, lead |-> lead, trail |-> trail, kind |-> kind,
     hasIssues |-> hasIssues, issues |-> issues]
GenerationFail ==
    [raised |-> TRUE, lead |-> FALSE, trail |-> FALSE, kind |-> "prose",
     hasIssues |-> FALSE, issues |-> <<>>]

\* re.search(r"\{.*\}$", out, re.S), then json.loads: the regex cuts the text
\* before an object that ends the output; json.loads of anything else than
\* one JSON value raises
ParsesAsJson(out) ==
    \/ out.kind = "object" /\ ~out.trail
    \/ out.kind = "array" /\ ~out.lead /\ ~out.trail

\* d.get(key, default)
Get(v, default) == IF v = Absent THEN default ELSE v

RECURSIVE AiIssuesFrom(_, _, _)
\* the loop "for gi in parsed.get('issues', [])" over items[k..]: gi.get of
\* something that is no object raises, after the issues before it were added
AiIssuesFrom(items, k, ai_issues) ==
    IF k > Len(items) THEN [raised |-> FALSE, ai_issues |-> ai_issues]
    ELSE IF ~items[k].isDict THEN [raised |-> TRUE, ai_issues |-> ai_issues]
    ELSE AiIssuesFrom(items, k + 1,
             Append(ai_issues,
                    Issue(Get(items[k].section, "(from AI)"),
                          Get(items[k].issue, ""),
                          Get(items[k].severity, "Medium"),
                          Get(items[k].suggestion, ""),
                          Get(items[k].citation, None))))

\* the try block of the analysis loop.  raised: it ended in the except
\* clause; queried, generated: the gateway calls made
RagStep(ps, qresp, out) ==
    LET r == retrieve(ps, qresp, TOP_K)
        none == [raised |-> FALSE, ai_issues |-> <<>>, queried |-> r.calls > 0,
                 generated |-> FALSE, anyUnembedded |-> AnyUnembedded(ps),
                 allUnembedded |-> AllUnembedded(ps)]
    IN  IF r.raised THEN [none EXCEPT !.raised = TRUE]
        ELSE IF r.order = <<>> THEN none
        ELSE IF out.raised \/ ~ParsesAsJson(out) \/ out.kind # "object"
        THEN [none EXCEPT !.raised = TRUE, !.generated = TRUE]
        ELSE LET a == AiIssuesFrom(IF out.hasIssues THEN out.issues ELSE <<>>,
                                   1, <<>>)
             IN  [none EXCEPT !.raised = a.raised, !.ai_issues = a.ai_issues,
                              !.generated = TRUE]

---------------------------------------------------------------------------
(* The script: index build, then the analysis of the uploaded files        *)

MaxRefs == 2
MaxBatch == 2

RefFilePool ==
    {[name |-> "a.txt", text |-> ""],
     [name |-> "b.txt", text |-> "ADGM Companies Regulations 2020."]}

DocPool ==
    {[name |-> "articles.docx",
      paragraphs |-> <<"Articles of Association", "Governing law of ADGM",
                       "Signature: A. Khan">>],
     [name |-> "moa.docx",
      paragraphs |-> <<"Memorandum of Association and UBO Declaration",
                       "Jurisdiction: Dubai", "The jurisdiction may change">>],
     [name |-> "minutes.docx",
      paragraphs |-> <<"Board minutes", "Signed in ADGM">>]}

AiEcho ==
    Item("jurisdiction", "  jurisdiction clause does not specify adgm", "High",
         Absent, "ADGM Courts Regulations 2015")
AiCritical ==
    Item(Absent, "Director may act alone", "Critical", Absent, Absent)
AiNullIssue ==
    Item(Absent, None, "Low", "Rephrase.", None)

GenPool ==
    {GenerationFail,
     Generated(FALSE, FALSE, "prose", FALSE, <<>>),
     Generated(TRUE, TRUE, "object", TRUE, <<AiEcho>>),
     Generated(TRUE, FALSE, "object", TRUE, <<AiEcho, AiCritical>>),
     Generated(FALSE, FALSE, "object", TRUE, <<AiEcho, NotADict>>),
     Generated(FALSE, FALSE, "object", TRUE, <<AiNullIssue>>)}

AppQueryResponses == {GatewayFail, Embedded(<< <<1, 0>> >>)}

\* what the gateway may answer to the n chunks of a build: failure, one
\* vector per chunk, a single vector, or no vector at all
BuildResponses(n) ==
    {GatewayFail, Embedded([i \in 1..n |-> <<1, 0>>]),
     Embedded(<< <<1, 0>> >>), Embedded(<<>>)}

\* the part of one pass of "for uf in user_files" that the gateways have no
\* hand in: classification, rules, merge and annotation, given the model
\* issues the try block left
analyze_file(uf, ai_issues) ==
    LET text        == docx_to_text(uf.paragraphs)
        rule_issues == check_for_red_flags(text)
        merged      == merge_issues(rule_issues, ai_issues)
    IN  [detected    |-> detect_document_types(text),
         rule_issues |-> rule_issues,
         merged      |-> merged,
         ann         |-> AnnotateFrom(merged, 1, text, uf.paragraphs)]

\* the model issues the try block can leave
AiOutcomes ==
    {<<>>} \cup {AiIssuesFrom(out.issues, 1, <<>>).ai_issues : out \in GenPool}

\* analyze_file over the files and model issues above, evaluated once
AnalyzedFile ==
    [uf \in DocPool, ai_issues \in AiOutcomes |-> analyze_file(uf, ai_issues)]

RECURSIVE AddAll(_, _)
\* the loop "for rf in ref_files" over a fresh index
AddAll(refs, ps) ==
    IF refs = <<>> THEN ps
    ELSE AddAll(Tail(refs),
                add_document(ps, Head(refs).name, Head(refs).text,
                             Head(refs).name))

Init ==
    /\ AppIdle
    /\ AnnIdle
    /\ chunkIn = None /\ chunkOut = None
    /\ mergeIn = None /\ mergeOut = None
    /\ passages = <<>> /\ lastCall = [op |-> "none"]

\* a run of the script starts
RunStarts == pc = "idle"

\* the block "if build_btn" that forgets to clear index_built when the
\* embedding fails
BuildKeepsFlag(ref_files, resp) ==
    /\ RunStarts
    /\ LET r == embed_all(AddAll(ref_files, <<>>), resp)
       IN  IF ref_files = <<>>
           THEN /\ rag_index' = <<>>
                /\ lastBuild' = "noref"
                /\ UNCHANGED index_built
           ELSE /\ rag_index' = r.passages
                /\ index_built' = (index_built \/ ~r.raised)
                /\ lastBuild' = IF r.raised THEN "failed" ELSE "ok"
    /\ logs' = <<>>
    /\ pc' = "built"
    /\ UNCHANGED <<batch, pos, results, report>>
    /\ UNCHANGED <<chunkVars, mergeVars, idxVars, annVars>>

\* the block "if build_btn"; resp is what the embedding gateway does
Build(ref_files, resp) ==
    /\ RunStarts
    /\ LET r == embed_all(AddAll(ref_files, <<>>), resp)
       IN  IF ref_files = <<>>
           THEN /\ rag_index' = <<>>
                /\ logs' = <<"Build requested but no reference files.">>
                /\ lastBuild' = "noref"
                /\ UNCHANGED index_built
           ELSE /\ rag_index' = r.passages
                /\ index_built' = ~r.raised
                /\ lastBuild' = IF r.raised THEN "failed" ELSE "ok"
                /\ logs' = <<"Indexing " \o ToString(Len(ref_files))
                                 \o " reference files...",
                             "Creating embeddings...">>
                           \o (IF r.raised
                               THEN <<"Embedding error", "<traceback>">>
                               ELSE <<>>)
    /\ pc' = "built"
    /\ UNCHANGED <<batch, pos, results, report>>
    /\ UNCHANGED <<chunkVars, mergeVars, idxVars, annVars>>

\* "if user_files": the report and the lists the loop fills
StartAnalysis(user_files) ==
    /\ pc \in {"idle", "built"}
    /\ user_files # <<>>
    /\ batch' = user_files
    /\ pos' = 0
    /\ results' = <<>>
    /\ report' = NewReport(Len(user_files))
    /\ UNCHANGED logs
    /\ pc' = "analyzing"
    /\ UNCHANGED <<rag_index, index_built, lastBuild>>
    /\ UNCHANGED <<chunkVars, mergeVars, idxVars, annVars>>

\* it["document"] = uf.name
WithDocument(it, name) ==
    [section |-> it.section, issue |-> it.issue, severity |-> it.severity,
     suggestion |-> it.suggestion, citation |-> it.citation,
     document |-> name]

\* one pass of "for uf in user_files"; qresp and out are what the embedding
\* gateway and the generation gateway do if they are called
AnalyzeDoc(qresp, out) ==
    /\ pc = "analyzing"
    /\ pos < Len(batch)
    /\ LET uf     == batch[pos + 1]
           rag    == IF index_built
                     THEN RagStep(rag_index, qresp, out)
                     ELSE [raised |-> FALSE, ai_issues |-> <<>>,
                           queried |-> FALSE, generated |-> FALSE,
                           anyUnembedded |-> FALSE, allUnembedded |-> FALSE]
           file   == AnalyzedFile[uf, rag.ai_issues]
           detected    == file.detected
           rule_issues == file.rule_issues
           merged == file.merged
           ann    == file.ann
           logged == <<"Detected for " \o uf.name>>
                     \o (IF rag.raised
                         THEN <<"RAG step failed for " \o uf.name,
                                "<traceback>">>
                         ELSE <<>>)
       IN  /\ logs' = logs \o logged
           /\ IF ann.raised
              THEN /\ pc' = "aborted"
                   /\ UNCHANGED <<pos, results, report>>
              ELSE /\ pos' = pos + 1
                   /\ results' =
                          Append(results,
                              [filename    |-> uf.name,
                               detected    |-> detected,
                               rule_issues |-> rule_issues,
                               ai_issues   |-> rag.ai_issues,
                               merged      |-> merged,
                               rag_failed  |-> rag.raised,
                               retrieved   |-> index_built,
                               sawPartial  |-> index_built /\ rag.anyUnembedded
                                                   /\ ~rag.allUnembedded,
                               gatewayFault |->
                                   \/ rag.queried /\ ~qresp.ok
                                   \/ rag.generated /\ out.raised,
                               outputFault |->
                                   /\ rag.generated /\ ~out.raised
                                   /\ \/ ~ParsesAsJson(out)
                                      \/ out.kind # "object"
                                      \/ \E k \in 1..Len(out.issues) :
                                             ~out.issues[k].isDict,
                               reviewed    |-> ann.paras])
                   /\ report' =
                          [report EXCEPT !.issues_found =
                              @ \o [k \in 1..Len(merged) |->
                                       WithDocument(merged[k], uf.name)]]
                   /\ UNCHANGED pc
    /\ UNCHANGED <<rag_index, index_built, lastBuild, batch>>
    /\ UNCHANGED <<chunkVars, mergeVars, idxVars, annVars>>

Required == {CHECKLISTS[i] : i \in 1..Len(CHECKLISTS)}

\* the checklist computed from the last file's labels only
FinishAnalysisLastFile ==
    /\ pc = "analyzing"
    /\ pos = Len(batch)
    /\ LET types_present == results[Len(results)].detected
       IN  IF \E x \in Required : x \in types_present
           THEN report' = [report EXCEPT
                    !.process = "Company Incorporation",
                    !.required_documents = Len(CHECKLISTS),
                    !.missing_documents = Required \ types_present]
           ELSE UNCHANGED report
    /\ pc' = "done"
    /\ UNCHANGED <<rag_index, index_built, lastBuild, logs, batch, pos, results>>
    /\ UNCHANGED <<chunkVars, mergeVars, idxVars, annVars>>

\* after the loop: the checklist and the summary
FinishAnalysis ==
    /\ pc = "analyzing"
    /\ pos = Len(batch)
    /\ LET types_present == UNION {results[i].detected : i \in 1..Len(results)}
           present == {t \in types_present : t \in Required}
           missing == Required \ present
       IN  IF \E x \in Required : x \in types_present
           THEN /\ report' = [report EXCEPT
                        !.process = "Company Incorporation",
                        !.required_documents = Len(CHECKLISTS),
                        !.missing_documents = missing]
                /\ logs' = IF missing # {}
                           THEN Append(logs, "Missing documents")
                           ELSE logs
           ELSE UNCHANGED <<report, logs>>
    /\ pc' = "done"
    /\ UNCHANGED <<rag_index, index_built, lastBuild, batch, pos, results>>
    /\ UNCHANGED <<chunkVars, mergeVars, idxVars, annVars>>

\* the run is over, by its last statement or by an uncaught exception: its
\* locals are gone, the session (index, flag) stays
EndRun ==
    /\ pc \in {"built", "done", "aborted"}
    /\ pc' = "idle"
    /\ logs' = <<>>
    /\ batch' = <<>> /\ pos' = 0 /\ results' = <<>>
    /\ report' = NewReport(0)
    /\ UNCHANGED <<rag_index, index_built, lastBuild>>
    /\ UNCHANGED <<chunkVars, mergeVars, idxVars, annVars>>

Next ==
    \/ \E ref_files \in SeqsUpTo(RefFilePool, MaxRefs) :
           \E resp \in BuildResponses(Len(AddAll(ref_files, <<>>))) :
               Build(ref_files, resp)
    \/ \E user_files \in SeqsUpTo(DocPool, MaxBatch) : StartAnalysis(user_files)
    \/ \E qresp \in AppQueryResponses, out \in GenPool : AnalyzeDoc(qresp, out)
    \/ FinishAnalysis
    \/ EndRun

Spec == Init /\ [][Next]_vars

\* C3: a document whose gateway call failed, or whose generated output is
\* not the expected JSON issue list, ends with no model issue (its merged
\* issues are its rule issues) and with the failure in the log, and no batch
\* is aborted: every document is analysed and reported.
C3_FailureDegradesOneDocument ==
    /\ pc # "aborted"
    /\ \A i \in 1..Len(results) :
           (results[i].gatewayFault \/ results[i].outputFault) =>
               /\ results[i].ai_issues = <<>>
               /\ results[i].merged = results[i].rule_issues
               /\ \E k \in 1..Len(logs) :
                      logs[k] = "RAG step failed for " \o results[i].filename

\* some chunks of the index have an embedding and others have none
PartlyEmbedded(ps) == AnyUnembedded(ps) /\ ~AllUnembedded(ps)

\* C4: no analysis retrieves from an index of which only some chunks have an
\* embedding, and after a build whose embedding call failed the index is
\* marked unbuilt.
C4_NoPartialIndexRetrieved ==
    /\ ~PartlyEmbedded(rag_index)
    /\ \A i \in 1..Len(results) : ~results[i].sawPartial
    /\ lastBuild = "failed" => ~index_built

\* a batch was analysed after a build whose embedding call failed, on an
\* index whose chunks have no embedding
C4_Witness ==
    /\ pc = "done"
    /\ lastBuild = "failed"
    /\ rag_index # <<>>
    /\ AllUnembedded(rag_index)
    /\ Len(results) = 2
    /\ \A i \in 1..Len(results) : ~results[i].retrieved

\* the labels detected across the files of the batch
DetectedInBatch ==
    UNION {detect_document_types(docx_to_text(batch[i].paragraphs)) :
               i \in 1..Len(batch)}

\* C7: a batch with a document of a checklist label reports as missing the
\* required labels that no document of the batch was classified to; a batch
\* without one reports no process and no missing document.
C7_MissingIsRequiredMinusDetected ==
    pc = "done" =>
        IF DetectedInBatch \cap Required # {}
        THEN /\ report.process = "Company Incorporation"
             /\ report.missing_documents = Required \ DetectedInBatch
        ELSE /\ report.process = None
             /\ report.missing_documents = {}

\* five labels are required, the two files of the batch have three of them
\* between them, neither file has all three, and the other two are reported
C7_Witness ==
    /\ pc = "done"
    /\ Cardinality(Required) = 5
    /\ Len(batch) = 2
    /\ Cardinality(DetectedInBatch \cap Required) = 3
    /\ \A i \in 1..2 : results[i].detected # DetectedInBatch
    /\ Cardinality(report.missing_documents) = 2

\* C8: every issue of the report has severity High, Medium or Low.
C8_SeverityIsOneOfThree ==
    \A k \in 1..Len(report.issues_found) :
        report.issues_found[k].severity \in {"High", "Medium", "Low"}

====
